---- MODULE Spec2Model ----
(***************************************************************************)
(* FloorplanController (the interaction layer of the 2D floorplan editor)  *)
(* and the Callback observer registry, as state machines.                  *)
(*                                                                         *)
(* Numbers.  The program computes in floating point.  Here lengths are     *)
(* integers in 1/1000 cm and pixel quantities (clientX, the canvas         *)
(* rectangle, originX) integers in 1/1000 px, with products rounded down:  *)
(* cmPerPixel = 30.48 / 15 = 2.032 cm per px is the integer 2032.          *)
(*                                                                         *)
(* JavaScript's null and undefined are both NULL: the code only tests      *)
(* them for truthiness or compares them with entities.                     *)
(***************************************************************************)
EXTENDS Integers, Sequences, FiniteSets, TLC

NULL == 0

MOVE == "MOVE"
DRAW == "DRAW"
DELETE == "DELETE"
Modes == {MOVE, DRAW, DELETE}

(* how much will we move a corner to make a wall axis aligned: 25 cm *)
snapTolerance == 25000
(* 30.48 cm *)
cmPerFoot == 30480
pixelsPerFoot == 15
cmPerPixel == cmPerFoot \div pixelsPerFoot

(* a pixel quantity (1/1000 px) times cmPerPixel, in 1/1000 cm *)
ToCm(p) == (p * cmPerPixel) \div 1000
(* a length (1/1000 cm) times pixelsPerCm = 1 / cmPerPixel, in 1/1000 px *)
ToPx(c) == (c * 1000) \div cmPerPixel

Abs(n) == IF n < 0 THEN 0 - n ELSE n

----------------------------------------------------------------------------
(* Bounds of the model. *)

(* events (pointer, key, mode, reset, timer) a run of the controller handles *)
MaxEvents == 6
(* registrations a Callback may hold *)
MaxListeners == 3
(* walls in a list handed to checkWallDuplicates *)
MaxWalls == 3
(* events a run handles when the expiry of the debounce timer is awaited *)
MaxLiveEvents == 5

----------------------------------------------------------------------------
VARIABLES
    (* FloorplanController *)
    mode, activeWall, activeCorner, activeItemIndex,
    originX, originY, targetX, targetY, lastNode,
    mouseDown, mouseMoved, mouseX, mouseY, lastX, lastY, lastRawX, lastRawY,
    (* FloorplanModel: corner id -> position, wall list, item list, selection *)
    corners, walls, items, selectedItem,
    (* ids handed out so far to corners and walls *)
    cornerSeq, wallSeq,
    (* the debounce timer of emitChanges: number of armed timeouts *)
    pending,
    (* observers (not program state): what the last event did, the items   *)
    (* with startActive and no endActive since, the notifications and      *)
    (* emitChanges calls of the current burst, and whether a move event    *)
    (* was delivered since the last press event                            *)
    ev, started, firedInBurst, burst, movedSincePress,
    (* observers: the answers of the most recent run of the hit tests, and *)
    (* the view origin in the most recently delivered change notification, *)
    (* as a sequence that is empty until the first one                     *)
    hovered, delivered,
    (* events handled so far *)
    steps,
    (* Callback: the listener array, and the calls made by the last fire   *)
    callbacks, calls,
    (* observers of the Callback: the registrations in force, as add and   *)
    (* remove were called, and every function ever added                   *)
    registered, everAdded,
    (* Callback: the fire in progress, as a sequence that is empty when    *)
    (* there is none: the array forEach iterates, its position in it, and  *)
    (* what was registered when it began                                   *)
    firing,
    (* checkWallDuplicates on its own: the list it was given *)
    wallsIn

ctlVars == <<mode, activeWall, activeCorner, activeItemIndex,
             originX, originY, targetX, targetY, lastNode,
             mouseDown, mouseMoved, mouseX, mouseY, lastX, lastY,
             lastRawX, lastRawY>>
fpVars == <<corners, walls, items, selectedItem, cornerSeq, wallSeq>>
obsVars == <<pending, ev, started, firedInBurst, burst, movedSincePress,
             hovered, delivered>>
cbVars == <<callbacks, calls, registered, everAdded, firing>>
vars == <<ctlVars, fpVars, obsVars, steps, cbVars, wallsIn>>

----------------------------------------------------------------------------
(* The whole state as one record, so that a handler is a function from the *)
(* state before it to the state after it, statement by statement.          *)

World ==
    [mode |-> mode, activeWall |-> activeWall, activeCorner |-> activeCorner,
     activeItemIndex |-> activeItemIndex,
     originX |-> originX, originY |-> originY,
     targetX |-> targetX, targetY |-> targetY, lastNode |-> lastNode,
     mouseDown |-> mouseDown, mouseMoved |-> mouseMoved,
     mouseX |-> mouseX, mouseY |-> mouseY, lastX |-> lastX, lastY |-> lastY,
     lastRawX |-> lastRawX, lastRawY |-> lastRawY,
     corners |-> corners, walls |-> walls, items |-> items,
     selectedItem |-> selectedItem, cornerSeq |-> cornerSeq, wallSeq |-> wallSeq,
     pending |-> pending, ev |-> ev, started |-> started,
     firedInBurst |-> firedInBurst, burst |-> burst,
     movedSincePress |-> movedSincePress,
     hovered |-> hovered, delivered |-> delivered]

Commit(w) ==
    /\ mode' = w.mode /\ activeWall' = w.activeWall
    /\ activeCorner' = w.activeCorner /\ activeItemIndex' = w.activeItemIndex
    /\ originX' = w.originX /\ originY' = w.originY
    /\ targetX' = w.targetX /\ targetY' = w.targetY /\ lastNode' = w.lastNode
    /\ mouseDown' = w.mouseDown /\ mouseMoved' = w.mouseMoved
    /\ mouseX' = w.mouseX /\ mouseY' = w.mouseY
    /\ lastX' = w.lastX /\ lastY' = w.lastY
    /\ lastRawX' = w.lastRawX /\ lastRawY' = w.lastRawY
    /\ corners' = w.corners /\ walls' = w.walls /\ items' = w.items
    /\ selectedItem' = w.selectedItem
    /\ cornerSeq' = w.cornerSeq /\ wallSeq' = w.wallSeq
    /\ pending' = w.pending /\ ev' = w.ev /\ started' = w.started
    /\ firedInBurst' = w.firedInBurst /\ burst' = w.burst
    /\ movedSincePress' = w.movedSincePress
    /\ hovered' = w.hovered /\ delivered' = w.delivered

----------------------------------------------------------------------------
(* Sequences. *)

Range(q) == {q[i] : i \in DOMAIN q}

(* Array.prototype.indexOf, 1-based; 0 (NULL) when absent *)
IndexOf(q, x) ==
    IF \E i \in DOMAIN q : q[i] = x
    THEN CHOOSE i \in DOMAIN q : q[i] = x /\ \A j \in 1..(i - 1) : q[j] # x
    ELSE NULL

Min(S) == CHOOSE x \in S : \A y \in S : x <= y
Max(S) == CHOOSE x \in S : \A y \in S : x >= y

----------------------------------------------------------------------------
(* Callback: cbs is the callbacks array.  A call of a listener is recorded *)
(* as [fn, event].                                                         *)

(* add, putting the listener at the front of the array *)
addInFront(cbs, fn) == <<fn>> \o cbs

add(cbs, fn) == Append(cbs, fn)

remove(cbs, fn) == SelectSeq(cbs, LAMBDA f : f # fn)

(* fire: forEach over the array, in index order; the calls it makes *)
fire(cbs, event) == [i \in DOMAIN cbs |-> [fn |-> cbs[i], event |-> event]]

(* a fire in progress, f, when this.callbacks is cbs.  f.arr is the array  *)
(* forEach was called on, f.len its length at that time and f.i the next   *)
(* index.  f.same: this.callbacks is still that array, so that a push      *)
(* lengthens it; remove makes this.callbacks another array.                *)

(* the listeners still to call, were the loop to read this.callbacks and   *)
(* its length anew at every index                                          *)
toVisitLive(f, cbs) == SubSeq(cbs, f.i, Len(cbs))

(* forEach: the listeners still to call are those of the array it was      *)
(* called on, up to the length the array had at the call                   *)
toVisit(f, cbs) == SubSeq(f.arr, f.i, f.len)

forEachBegin(cbs, event, atBegin) ==
    [arr |-> cbs, same |-> TRUE, len |-> Len(cbs), i |-> 1, event |-> event,
     atBegin |-> atBegin]

(* add and remove called by a listener during the fire f *)
addDuring(f, fn) == [f EXCEPT !.arr = IF f.same THEN add(@, fn) ELSE @]
removeDuring(f, fn) == [f EXCEPT !.same = FALSE]

----------------------------------------------------------------------------
(* FloorplanModel, Corner, Wall and Item: the collaborators of the         *)
(* controller.  A corner is an id with a position, a wall a record         *)
(* [id, start, end] of the wall list, an item an id of the item list.      *)

(* Corner.removeAll: the corner and every wall attached to it *)
removeAll(w, c) ==
    [w EXCEPT !.corners = [k \in (DOMAIN w.corners) \ {c} |-> w.corners[k]],
              !.walls = SelectSeq(w.walls, LAMBDA x : x.start # c /\ x.end # c)]

(* Wall.remove; removing a wall that is no longer in the list changes nothing *)
removeWall(w, id) ==
    [w EXCEPT !.walls = SelectSeq(w.walls, LAMBDA x : x.id # id)]

(* Item.remove *)
removeItem(w, it) ==
    [w EXCEPT !.items = SelectSeq(w.items, LAMBDA x : x # it)]

(* FloorplanModel.newCorner: a corner with a fresh identity *)
newCorner(w, x, y) ==
    [w EXCEPT !.cornerSeq = w.cornerSeq + 1,
              !.corners = [k \in (DOMAIN w.corners) \cup {w.cornerSeq + 1} |->
                              IF k = w.cornerSeq + 1 THEN [x |-> x, y |-> y]
                              ELSE w.corners[k]]]

(* FloorplanModel.newWall: appended to the wall list *)
newWall(w, a, b) ==
    [w EXCEPT !.wallSeq = w.wallSeq + 1,
              !.walls = Append(w.walls,
                               [id |-> w.wallSeq + 1, start |-> a, end |-> b])]

(* the corners Corner.mergeWithIntersected(c) can merge c with: here the   *)
(* other corners at exactly c's position                                   *)
Intersected(w, c) ==
    {k \in (DOMAIN w.corners) \ {c} : w.corners[k] = w.corners[c]}

(* Corner.mergeWithIntersected when it merges c with corner k: the walls   *)
(* of k are attached to c, k is removed, and a wall from c to c is dropped *)
combineWithCorner(w, c, k) ==
    LET moved == [i \in DOMAIN w.walls |->
                    [w.walls[i] EXCEPT
                        !.start = IF @ = k THEN c ELSE @,
                        !.end = IF @ = k THEN c ELSE @]]
    IN [w EXCEPT !.corners = [j \in (DOMAIN w.corners) \ {k} |-> w.corners[j]],
                 !.walls = SelectSeq(moved, LAMBDA x : x.start # x.end)]

(* FloorplanModel.setSelectedItem *)
setSelectedItem(w, it) == [w EXCEPT !.selectedItem = it]

(* Corner.move(x, y) followed by Corner.snapToAxis: the corner is at the   *)
(* pointer (the alignment with neighbouring corners is not modelled)       *)
moveCorner(w, c, x, y) ==
    IF c \in DOMAIN w.corners
    THEN [w EXCEPT !.corners[c] = [x |-> x, y |-> y]]
    ELSE w

(* Corner.relativeMove *)
relativeMoveCorner(w, c, dx, dy) ==
    IF c \in DOMAIN w.corners
    THEN [w EXCEPT !.corners[c] = [x |-> @.x + dx, y |-> @.y + dy]]
    ELSE w

(* Wall.relativeMove: both ends of the wall move by the delta *)
relativeMoveWall(w, id, dx, dy) ==
    LET i == IndexOf([j \in DOMAIN w.walls |-> w.walls[j].id], id)
    IN IF i = NULL THEN w
       ELSE LET a == w.walls[i].start
                b == w.walls[i].end
                w1 == relativeMoveCorner(w, a, dx, dy)
            IN IF b = a THEN w1 ELSE relativeMoveCorner(w1, b, dx, dy)

(* FloorplanModel.getCenter: the centre of the corners' bounding box *)
getCenterFloorplan(w) ==
    IF DOMAIN w.corners = {} THEN [x |-> 0, z |-> 0]
    ELSE LET xs == {w.corners[k].x : k \in DOMAIN w.corners}
             ys == {w.corners[k].y : k \in DOMAIN w.corners}
         IN [x |-> (Min(xs) + Max(xs)) \div 2, z |-> (Min(ys) + Max(ys)) \div 2]

----------------------------------------------------------------------------
(* What the last handler did, for the properties below. *)

NoEvent ==
    [op |-> "init", hitItem |-> NULL, hitCorner |-> NULL, hitWall |-> NULL,
     setModes |-> 0, emits |-> 0, removed |-> "none", removedId |-> NULL,
     placed |-> NULL, wall |-> NULL, merged |-> FALSE, panned |-> FALSE,
     moved |-> "none", arg |-> "",
     clientX |-> 0, clientY |-> 0, modeEvents |-> <<>>, strayEnd |-> FALSE,
     payload |-> NULL, listener |-> ""]

Begin(w, op) == [w EXCEPT !.ev = [NoEvent EXCEPT !.op = op]]

----------------------------------------------------------------------------
(* FloorplanController *)

(* get activeItem: items[_activeItemIndex], undefined past the end *)
activeItem(w) ==
    IF w.activeItemIndex # NULL /\ w.activeItemIndex \in DOMAIN w.items
    THEN w.items[w.activeItemIndex]
    ELSE NULL

(* set activeItem: endActive on the previous item, startActive on the new  *)
(* one, then the index of the new one in the item list.  ev.strayEnd:      *)
(* endActive went to an item that had no startActive without endActive     *)
setActiveItem(w, item) ==
    LET cur == activeItem(w)
        ended == IF item # cur /\ cur # NULL THEN w.started \ {cur} ELSE w.started
        begun == IF item # cur /\ item # NULL THEN ended \cup {item} ELSE ended
        stray == item # cur /\ cur # NULL /\ cur \notin w.started
    IN [w EXCEPT !.started = begun,
                 !.ev.strayEnd = @ \/ stray,
                 !.activeItemIndex = IndexOf(w.items, item)]

(* emitChanges, arming a timeout without cancelling the armed one *)
emitWithoutCancel(w) ==
    [w EXCEPT !.pending = w.pending + 1,
              !.burst = IF w.firedInBurst > 0 \/ w.pending = 0 THEN 1
                        ELSE IF w.burst < 2 THEN w.burst + 1 ELSE w.burst,
              !.firedInBurst = 0,
              !.ev.emits = @ + 1]

(* emitChanges = debounce(fireChanges): a call cancels the armed timeout   *)
(* and arms a new one.  burst counts (up to 2) the calls since the last    *)
(* notification, firedInBurst the notifications since the last call        *)
emitChanges(w) ==
    [w EXCEPT !.pending = 1,
              !.burst = IF w.firedInBurst > 0 \/ w.pending = 0 THEN 1
                        ELSE IF w.burst < 2 THEN w.burst + 1 ELSE w.burst,
              !.firedInBurst = 0,
              !.ev.emits = @ + 1]

(* updateTarget, snapping also at a distance of exactly snapTolerance *)
updateTargetInclusive(w) ==
    IF w.mode = DRAW /\ w.lastNode # NULL
    THEN LET n == w.corners[w.lastNode]
         IN [w EXCEPT
               !.targetX = IF Abs(w.mouseX - n.x) <= snapTolerance
                           THEN n.x ELSE w.mouseX,
               !.targetY = IF Abs(w.mouseY - n.y) <= snapTolerance
                           THEN n.y ELSE w.mouseY]
    ELSE [w EXCEPT !.targetX = w.mouseX, !.targetY = w.mouseY]

updateTarget(w) ==
    IF w.mode = DRAW /\ w.lastNode # NULL
    THEN LET n == w.corners[w.lastNode]
         IN [w EXCEPT
               !.targetX = IF Abs(w.mouseX - n.x) < snapTolerance
                           THEN n.x ELSE w.mouseX,
               !.targetY = IF Abs(w.mouseY - n.y) < snapTolerance
                           THEN n.y ELSE w.mouseY]
    ELSE [w EXCEPT !.targetX = w.mouseX, !.targetY = w.mouseY]

(* onModeChange.fire(payload): what a listener is called with and what it  *)
(* finds in the controller and the model during the call                   *)
fireModeChange(w, payload) ==
    [w EXCEPT !.ev.modeEvents =
        Append(@, [payload |-> payload, mode |-> w.mode,
                   activeCorner |-> w.activeCorner, activeWall |-> w.activeWall,
                   activeItem |-> activeItem(w), lastNode |-> w.lastNode,
                   selectedItem |-> w.selectedItem])]

(* setMode, firing the mode-changed event before the update of the state *)
setModeFiresFirst(w, m) ==
    LET w0 == fireModeChange(w, m)
        w1 == [w0 EXCEPT !.activeWall = NULL, !.activeCorner = NULL]
        w2 == setActiveItem(w1, NULL)
        w3 == [w2 EXCEPT !.lastNode = NULL]
        w4 == setSelectedItem(w3, NULL)
        w5 == [w4 EXCEPT !.mode = m]
        w6 == updateTarget(w5)
    IN [w6 EXCEPT !.ev.setModes = @ + 1]

(* setMode, leaving the active corner as it is *)
setModeKeepsCorner(w, m) ==
    LET w1 == [w EXCEPT !.activeWall = NULL]
        w2 == setActiveItem(w1, NULL)
        w3 == [w2 EXCEPT !.lastNode = NULL]
        w4 == setSelectedItem(w3, NULL)
        w5 == [w4 EXCEPT !.mode = m]
        w6 == updateTarget(w5)
    IN fireModeChange([w6 EXCEPT !.ev.setModes = @ + 1], m)

(* ev.setModes counts the calls of setMode in the handler *)
setMode(w, m) ==
    LET w1 == [w EXCEPT !.activeWall = NULL, !.activeCorner = NULL]
        w2 == setActiveItem(w1, NULL)
        w3 == [w2 EXCEPT !.lastNode = NULL]
        w4 == setSelectedItem(w3, NULL)
        w5 == [w4 EXCEPT !.mode = m]
        w6 == updateTarget(w5)
    IN fireModeChange([w6 EXCEPT !.ev.setModes = @ + 1], m)

escapeKey(w) == setMode(Begin(w, "escapeKey"), MOVE)

(* checkWallDuplicatesOf, comparing walls in the same orientation only *)
checkSameOrientationOnly(ws) ==
    LET n == Len(ws)
        dup(i, k) ==
            /\ ws[i] # ws[k]
            /\ ws[i].end = ws[k].end /\ ws[i].start = ws[k].start
        duplicates == {ws[k].id : k \in {k \in 1..n : \E i \in 1..(k - 1) : dup(i, k)}}
    IN SelectSeq(ws, LAMBDA x : x.id \notin duplicates)

(* the scan of checkWallDuplicates over the wall list ws: wallCheck =      *)
(* ws[k] is pushed on duplicates when an earlier wall ws[i] joins the same *)
(* two corners; then every wall of duplicates is removed                   *)
checkWallDuplicatesOf(ws) ==
    LET n == Len(ws)
        dup(i, k) ==
            /\ ws[i] # ws[k]
            /\ \/ ws[i].end = ws[k].end /\ ws[i].start = ws[k].start
               \/ ws[i].end = ws[k].start /\ ws[i].start = ws[k].end
        duplicates == {ws[k].id : k \in {k \in 1..n : \E i \in 1..(k - 1) : dup(i, k)}}
    IN SelectSeq(ws, LAMBDA x : x.id \notin duplicates)

checkWallDuplicates(w) == [w EXCEPT !.walls = checkWallDuplicatesOf(w.walls)]

(* deleteActive, with no emitChanges after the removal of an item *)
deleteItemSilently(w) ==
    IF w.activeCorner # NULL
    THEN emitChanges([removeAll(w, w.activeCorner) EXCEPT
                        !.ev.removed = "corner",
                        !.ev.removedId = w.activeCorner])
    ELSE IF w.activeWall # NULL
    THEN emitChanges([removeWall(w, w.activeWall) EXCEPT
                        !.ev.removed = "wall",
                        !.ev.removedId = w.activeWall])
    ELSE IF activeItem(w) # NULL
    THEN [removeItem(w, activeItem(w)) EXCEPT
             !.ev.removed = "item", !.ev.removedId = activeItem(w)]
    ELSE setMode(w, MOVE)

(* mousedown, "delete" *)
deleteActive(w) ==
    IF w.activeCorner # NULL
    THEN emitChanges([removeAll(w, w.activeCorner) EXCEPT
                        !.ev.removed = "corner",
                        !.ev.removedId = w.activeCorner])
    ELSE IF w.activeWall # NULL
    THEN emitChanges([removeWall(w, w.activeWall) EXCEPT
                        !.ev.removed = "wall",
                        !.ev.removedId = w.activeWall])
    ELSE IF activeItem(w) # NULL
    THEN emitChanges([removeItem(w, activeItem(w)) EXCEPT
                        !.ev.removed = "item",
                        !.ev.removedId = activeItem(w)])
    ELSE setMode(w, MOVE)

(* mousedown, without the reset of mouseMoved *)
mousedownKeepsMoved(w0, e) ==
    LET w == [Begin(w0, "mousedown") EXCEPT
                !.ev.clientX = e.clientX, !.ev.clientY = e.clientY]
        w1 == [w EXCEPT !.mouseDown = TRUE,
                        !.lastX = w.mouseX, !.lastY = w.mouseY,
                        !.lastRawX = e.clientX, !.lastRawY = e.clientY]
    IN IF w1.mode = DELETE THEN deleteActive(w1) ELSE w1

(* outside DELETE mode the press goes to the selected item, whose own      *)
(* state is not part of the model                                          *)
mousedown(w0, e) ==
    LET w == [Begin(w0, "mousedown") EXCEPT
                !.ev.clientX = e.clientX, !.ev.clientY = e.clientY]
        w1 == [w EXCEPT !.mouseDown = TRUE, !.mouseMoved = FALSE,
                        !.lastX = w.mouseX, !.lastY = w.mouseY,
                        !.lastRawX = e.clientX, !.lastRawY = e.clientY]
    IN IF w1.mode = DELETE THEN deleteActive(w1) ELSE w1

(* hover, without the clearing of the active wall when a corner is hit *)
hoverKeepsWall(w, hit) ==
    IF hit.item # NULL
    THEN [setActiveItem(w, hit.item) EXCEPT
             !.activeCorner = NULL, !.activeWall = NULL]
    ELSE LET a == setActiveItem(w, NULL)
             b == [a EXCEPT !.activeCorner = hit.corner]
         IN IF b.activeCorner = NULL
            THEN [b EXCEPT !.activeWall = hit.wall]
            ELSE b

(* hover, with the corner hit test ahead of the item hit test *)
hoverCornerFirst(w, hit) ==
    IF hit.corner # NULL
    THEN [setActiveItem(w, NULL) EXCEPT
             !.activeCorner = hit.corner, !.activeWall = NULL]
    ELSE IF hit.item # NULL
    THEN [setActiveItem(w, hit.item) EXCEPT
             !.activeCorner = NULL, !.activeWall = NULL]
    ELSE [setActiveItem(w, NULL) EXCEPT
             !.activeCorner = NULL, !.activeWall = hit.wall]

(* mousemove, "update object target": hit is what overlappedItem,          *)
(* overlappedCorner and overlappedWall return at the pointer (the last two *)
(* are asked only when no item is hit)                                     *)
hover(w, hit) ==
    IF hit.item # NULL
    THEN [setActiveItem(w, hit.item) EXCEPT
             !.activeCorner = NULL, !.activeWall = NULL]
    ELSE LET a == setActiveItem(w, NULL)
             b == [a EXCEPT !.activeCorner = hit.corner]
         IN (* corner takes precedence *)
            IF b.activeCorner = NULL
            THEN [b EXCEPT !.activeWall = hit.wall]
            ELSE [b EXCEPT !.activeWall = NULL]

(* panning, without recording the raw position of the move *)
panKeepsRaw(w, e) ==
    IF /\ w.mouseDown /\ w.activeCorner = NULL
       /\ w.activeWall = NULL /\ activeItem(w) = NULL
    THEN [w EXCEPT
            !.originX = @ - (e.clientX - w.lastRawX),
            !.originY = @ - (e.clientY - w.lastRawY),
            !.ev.panned = TRUE]
    ELSE w

(* mousemove, "panning" *)
pan(w, e) ==
    IF /\ w.mouseDown /\ w.activeCorner = NULL
       /\ w.activeWall = NULL /\ activeItem(w) = NULL
    THEN [w EXCEPT
            !.originX = @ - (e.clientX - w.lastRawX),
            !.originY = @ - (e.clientY - w.lastRawY),
            !.lastRawX = e.clientX, !.lastRawY = e.clientY,
            !.ev.panned = TRUE]
    ELSE w

(* dragging, with no emitChanges after the move of a corner *)
dragCornerSilently(w, selected, owns) ==
    IF w.mode = MOVE /\ w.mouseDown
    THEN LET dx == w.mouseX - w.lastX
             dy == w.mouseY - w.lastY
             d == IF selected # NULL /\ selected = activeItem(w) /\ owns
                  THEN emitChanges([w EXCEPT !.ev.moved = "item"])
                  ELSE IF activeItem(w) # NULL
                  THEN emitChanges([w EXCEPT !.ev.moved = "item"])
                  ELSE IF w.activeCorner # NULL
                  THEN checkWallDuplicates(
                           [moveCorner(w, w.activeCorner, w.mouseX, w.mouseY)
                               EXCEPT !.ev.moved = "corner"])
                  ELSE IF w.activeWall # NULL
                  THEN emitChanges(checkWallDuplicates(
                           [relativeMoveWall(w, w.activeWall, dx, dy)
                               EXCEPT !.ev.moved = "wall"]))
                  ELSE w
         IN [d EXCEPT !.lastX = d.mouseX, !.lastY = d.mouseY]
    ELSE w

(* mousemove, "dragging": selected is the selected item read when the      *)
(* handler began, owns what selectedItem.mousemove returns                 *)
drag(w, selected, owns) ==
    IF w.mode = MOVE /\ w.mouseDown
    THEN LET dx == w.mouseX - w.lastX
             dy == w.mouseY - w.lastY
             d == IF selected # NULL /\ selected = activeItem(w) /\ owns
                  THEN emitChanges([w EXCEPT !.ev.moved = "item"])
                  ELSE IF activeItem(w) # NULL
                  THEN emitChanges([w EXCEPT !.ev.moved = "item"])
                  ELSE IF w.activeCorner # NULL
                  THEN emitChanges(checkWallDuplicates(
                           [moveCorner(w, w.activeCorner, w.mouseX, w.mouseY)
                               EXCEPT !.ev.moved = "corner"]))
                  ELSE IF w.activeWall # NULL
                  THEN emitChanges(checkWallDuplicates(
                           [relativeMoveWall(w, w.activeWall, dx, dy)
                               EXCEPT !.ev.moved = "wall"]))
                  ELSE w
         IN [d EXCEPT !.lastX = d.mouseX, !.lastY = d.mouseY]
    ELSE w

(* the answers the hit tests gave: overlappedCorner and overlappedWall are *)
(* not called when overlappedItem returned an item                         *)
Asked(hit) ==
    IF hit.item # NULL THEN [hit EXCEPT !.corner = NULL, !.wall = NULL] ELSE hit

(* e: the MouseEvent (clientX, clientY); rect: the canvas' bounding         *)
(* rectangle; hit: the answers of the three hit tests at the pointer        *)
mousemove(w0, e, rect, hit, owns) ==
    LET w == [Begin(w0, "mousemove") EXCEPT
                !.ev.hitItem = hit.item, !.ev.hitCorner = hit.corner,
                !.ev.hitWall = hit.wall,
                !.ev.clientX = e.clientX, !.ev.clientY = e.clientY]
        w1 == [w EXCEPT
                 !.mouseMoved = TRUE,
                 !.mouseX = ToCm(e.clientX - rect.left) + ToCm(w.originX),
                 !.mouseY = ToCm(e.clientY - rect.top) + ToCm(w.originY)]
        selected == w1.selectedItem
        (* update target (snapped position of actual mouse) *)
        w2 == IF w1.mode = DRAW \/ (w1.mode = MOVE /\ w1.mouseDown)
              THEN updateTarget(w1) ELSE w1
        w3 == IF w2.mode # DRAW /\ ~w2.mouseDown
              THEN [hover(w2, hit) EXCEPT !.hovered = Asked(hit)]
              ELSE w2
    IN drag(pan(w3, e), selected, owns)

(* mouseup, "drawing": k is the corner that mergeWithIntersected merges    *)
(* the new corner with, NULL when it merges nothing and returns false      *)
place(w, k) ==
    LET a == newCorner(w, w.targetX, w.targetY)
        corner == a.cornerSeq
        b == IF a.lastNode # NULL THEN newWall(a, a.lastNode, corner) ELSE a
        c == IF k # NULL THEN combineWithCorner(b, corner, k) ELSE b
        d == IF k # NULL /\ c.lastNode # NULL THEN setMode(c, MOVE) ELSE c
        f == [d EXCEPT !.lastNode = corner]
        g == checkWallDuplicates(f)
    IN emitChanges([g EXCEPT
                      !.ev.placed = corner,
                      !.ev.wall = IF a.lastNode # NULL THEN b.wallSeq ELSE NULL,
                      !.ev.merged = (k # NULL)])

(* select, clearing the selection whatever is active *)
selectNothing(w) == setSelectedItem(w, NULL)

(* mouseup in MOVE mode without movement: select the active item *)
select(w) == setSelectedItem(w, activeItem(w))

(* changed: what selectedItem.mouseup returns *)
mouseup(w0, changed, k) ==
    LET w == Begin(w0, "mouseup")
        w1 == [w EXCEPT !.mouseDown = FALSE]
        w2 == IF w1.selectedItem # NULL /\ changed THEN emitChanges(w1) ELSE w1
    IN IF w2.mode = DRAW /\ ~w2.mouseMoved THEN place(w2, k)
       ELSE IF ~w2.mouseMoved /\ w2.mode = MOVE THEN select(w2)
       ELSE w2

(* mouseleave, with the setMode call that the handler has commented out *)
mouseleaveToMove(w0) ==
    LET w == Begin(w0, "mouseleave")
    IN setMode(setActiveItem([w EXCEPT !.mouseDown = FALSE,
                                       !.activeCorner = NULL,
                                       !.activeWall = NULL], NULL), MOVE)

mouseleave(w0) ==
    LET w == Begin(w0, "mouseleave")
    IN setActiveItem([w EXCEPT !.mouseDown = FALSE, !.activeCorner = NULL,
                               !.activeWall = NULL], NULL)

(* Sets the origin so that floorplan is centered *)
resetOrigin(w, rect) ==
    LET centerX == rect.width \div 2
        centerY == rect.height \div 2
        centerFloorplan == getCenterFloorplan(w)
    IN [w EXCEPT !.originX = ToPx(centerFloorplan.x) - centerX,
                 !.originY = ToPx(centerFloorplan.z) - centerY]

reset(w0, rect) == resetOrigin(setMode(Begin(w0, "reset"), MOVE), rect)

(* FloorplanModel.exportFloorplan: the corners, walls and items *)
exportFloorplan(w) ==
    [corners |-> w.corners, walls |-> w.walls, items |-> w.items]

(* fireChanges, with the draw target in the place of the view origin *)
fireChangesAtTarget(w0) ==
    LET w == Begin(w0, "fireChanges")
        event == [x |-> w.targetX, y |-> w.targetY,
                  floorplane |-> exportFloorplan(w)]
    IN [w EXCEPT !.pending = w.pending - 1,
                 !.firedInBurst = @ + 1,
                 !.ev.payload = event,
                 !.delivered = <<[x |-> event.x, y |-> event.y]>>]

(* the armed timeout of emitChanges expires: fireChanges, which fires      *)
(* onModelChange with ev.payload                                           *)
fireChanges(w0) ==
    LET w == Begin(w0, "fireChanges")
        event == [x |-> w.originX, y |-> w.originY,
                  floorplane |-> exportFloorplan(w)]
    IN [w EXCEPT !.pending = w.pending - 1,
                 !.firedInBurst = @ + 1,
                 !.ev.payload = event,
                 !.delivered = <<[x |-> event.x, y |-> event.y]>>]

----------------------------------------------------------------------------
(* The controller under pointer, key and timer events. *)

(* the floorplan handed to the constructor: three corners joined by two    *)
(* walls, and two items                                                    *)
InitCorners ==
    (1 :> [x |-> 0, y |-> 0]) @@ (2 :> [x |-> ToCm(13000), y |-> ToCm(13000)])
    @@ (3 :> [x |-> ToCm(12000), y |-> ToCm(13000)])
InitWalls ==
    <<[id |-> 1, start |-> 1, end |-> 2], [id |-> 2, start |-> 2, end |-> 3]>>
InitItems == <<1, 2>>

(* pointer positions of the events (clientX, clientY) *)
Pointers ==
    {[clientX |-> 0, clientY |-> 0], [clientX |-> 12000, clientY |-> 13000]}

(* the canvas' bounding rectangle *)
Rect == [left |-> 0, top |-> 0, width |-> 26000, height |-> 26000]

Ids(q) == {q[i].id : i \in DOMAIN q}

NoHit == [item |-> NULL, corner |-> NULL, wall |-> NULL]

(* what the three hit tests may return in the current floorplan: every    *)
(* combination of a corner and a wall when no item is under the pointer;   *)
(* with an item under it, when the other two tests are not called, nothing *)
(* else or the first corner and the first wall as well                     *)
Hits ==
    {h \in [item : Range(items) \cup {NULL},
            corner : (DOMAIN corners) \cup {NULL}, wall : Ids(walls) \cup {NULL}] :
        \/ h.item = NULL
        \/ h.corner = NULL /\ h.wall = NULL
        \/ /\ h.corner # NULL /\ \A c \in DOMAIN corners : h.corner <= c
           /\ h.wall # NULL /\ \A x \in Ids(walls) : h.wall <= x}

InitController(fpCorners, fpWalls, fpItems) ==
    /\ mode = MOVE /\ activeWall = NULL /\ activeCorner = NULL
    /\ activeItemIndex = NULL
    /\ originX = 0 /\ originY = 0 /\ targetX = 0 /\ targetY = 0
    /\ lastNode = NULL /\ mouseDown = FALSE /\ mouseMoved = FALSE
    /\ mouseX = 0 /\ mouseY = 0 /\ lastX = 0 /\ lastY = 0
    /\ lastRawX = 0 /\ lastRawY = 0
    /\ corners = fpCorners /\ walls = fpWalls /\ items = fpItems
    /\ selectedItem = NULL
    /\ cornerSeq = Cardinality(DOMAIN fpCorners) /\ wallSeq = Len(fpWalls)
    /\ pending = 0 /\ ev = NoEvent /\ started = {}
    /\ firedInBurst = 0 /\ burst = 0 /\ movedSincePress = FALSE
    /\ hovered = NoHit /\ delivered = <<>>
    /\ steps = 0

InitCallback ==
    /\ callbacks = <<>> /\ calls = <<>> /\ registered = <<>> /\ everAdded = {}
    /\ firing = <<>>

InitIdle == InitCallback /\ wallsIn = <<>>

Init == InitController(InitCorners, InitWalls, InitItems) /\ InitIdle

(* the state after an event is that of its handler; one more event is     *)
(* handled; the Callback and wall-list variables rest                      *)
CanHandle == steps < MaxEvents

Handled(after) ==
    \E w \in {after} :
        /\ Commit(w)
        /\ steps' = steps + 1
        /\ UNCHANGED <<cbVars, wallsIn>>

Press ==
    /\ CanHandle
    /\ \E e \in Pointers :
          Handled([mousedown(World, e) EXCEPT !.movedSincePress = FALSE])

(* the hit tests run only with the button up outside DRAW mode, and        *)
(* selectedItem.mousemove only on a drag of the selected, active item      *)
MoveIn(pointers, rects) ==
    /\ CanHandle
    /\ \E e \in pointers, rect \in rects :
       \E hit \in (IF mode # DRAW /\ ~mouseDown THEN Hits ELSE {NoHit}) :
       \E owns \in (IF /\ mode = MOVE /\ mouseDown /\ selectedItem # NULL
                       /\ selectedItem = activeItem(World)
                    THEN BOOLEAN ELSE {FALSE}) :
           Handled([mousemove(World, e, rect, hit, owns) EXCEPT
                      !.movedSincePress = TRUE])

Move == MoveIn(Pointers, {Rect})

(* selectedItem.mouseup is called only when an item is selected; the new   *)
(* corner of a DRAW click merges with a corner at its position, if any     *)
Release ==
    /\ CanHandle
    /\ \E changed \in (IF selectedItem # NULL THEN BOOLEAN ELSE {FALSE}) :
        LET placing == mode = DRAW /\ ~mouseMoved
            fresh == [x |-> targetX, y |-> targetY]
            hitSet == IF placing
                      THEN {k \in DOMAIN corners : corners[k] = fresh}
                      ELSE {}
        IN \E k \in (IF hitSet = {} THEN {NULL} ELSE hitSet) :
               Handled(mouseup(World, changed, k))

Leave == CanHandle /\ Handled(mouseleave(World))

Escape == CanHandle /\ Handled(escapeKey(World))

(* a call of setMode(m) from outside; ev.arg is m *)
SetMode ==
    /\ CanHandle
    /\ \E m \in Modes :
          Handled(setMode([Begin(World, "setMode") EXCEPT !.ev.arg = m], m))

Reset == CanHandle /\ Handled(reset(World, Rect))

TimerFires == CanHandle /\ pending > 0 /\ Handled(fireChanges(World))

Next ==
    \/ Press
    \/ Move
    \/ Release
    \/ Leave
    \/ Escape
    \/ SetMode
    \/ Reset
    \/ TimerFires

Spec == Init /\ [][Next]_vars

----------------------------------------------------------------------------
(* Properties of the controller. *)

(* the active entities that are set *)
Actives ==
    (IF activeCorner # NULL THEN {"corner"} ELSE {})
    \cup (IF activeWall # NULL THEN {"wall"} ELSE {})
    \cup (IF activeItem(World) # NULL THEN {"item"} ELSE {})

(* an event was handled in this step, and it was op *)
Did(op) == steps' = steps + 1 /\ ev'.op = op

(* C1: in every reachable state at most one of the active corner, the      *)
(* active wall and the active item is set; in particular after a move      *)
(* event that set one of them the other two are none.                      *)
C1_AtMostOneActive == Cardinality(Actives) <= 1

(* a move over a corner and a wall, after a move that made a wall active:  *)
(* the corner is active and the wall is not                                *)
C1_Witness ==
    /\ ev.op = "mousemove" /\ ev.hitCorner # NULL /\ ev.hitWall # NULL
    /\ ev.hitItem = NULL /\ Actives = {"corner"} /\ steps >= 2

(* C2: a handler that called setMode (Escape, the DELETE press with        *)
(* nothing active, reset, setMode itself, the DRAW release that merged a   *)
(* corner) finishes with no active corner, wall or item, no selected item  *)
(* and no last-placed corner.                                              *)
C2_ModeTransitionClears ==
    ev.setModes > 0 =>
        /\ Actives = {} /\ selectedItem = NULL /\ lastNode = NULL

(* C3: after a move event handled with the button up outside DRAW mode the *)
(* active entity is the item under the pointer if there is one, otherwise  *)
(* the corner under the pointer if there is one, otherwise the wall under  *)
(* the pointer, and none if nothing is under the pointer.                  *)
C3_HitPrecedence ==
    (ev.op = "mousemove" /\ mode # DRAW /\ ~mouseDown) =>
        /\ activeItem(World) = ev.hitItem
        /\ activeCorner = (IF ev.hitItem # NULL THEN NULL ELSE ev.hitCorner)
        /\ activeWall = (IF ev.hitItem # NULL \/ ev.hitCorner # NULL
                         THEN NULL ELSE ev.hitWall)

(* the pointer is over an item, a corner and a wall at once: the item is   *)
(* active                                                                  *)
C3_Witness ==
    /\ ev.op = "mousemove" /\ mode # DRAW /\ ~mouseDown
    /\ ev.hitItem # NULL /\ ev.hitCorner # NULL /\ ev.hitWall # NULL
    /\ Actives = {"item"} /\ activeItem(World) = ev.hitItem

(* C4: a press in DELETE mode removes the active entity and nothing else   *)
(* (with an active corner also the walls attached to it), stays in DELETE  *)
(* mode and arms the change notification; with nothing active it removes   *)
(* nothing, arms nothing and switches to MOVE mode.                        *)
C4_DeletePress ==
    [][(Did("mousedown") /\ mode = DELETE) =>
        IF activeCorner # NULL
        THEN /\ DOMAIN corners' = (DOMAIN corners) \ {activeCorner}
             /\ \A k \in DOMAIN corners' : corners'[k] = corners[k]
             /\ walls' = SelectSeq(walls, LAMBDA x : x.start # activeCorner
                                                     /\ x.end # activeCorner)
             /\ items' = items
             /\ mode' = DELETE /\ ev'.emits = 1 /\ pending' = 1
        ELSE IF activeWall # NULL
        THEN /\ walls' = SelectSeq(walls, LAMBDA x : x.id # activeWall)
             /\ corners' = corners /\ items' = items
             /\ mode' = DELETE /\ ev'.emits = 1 /\ pending' = 1
        ELSE IF activeItem(World) # NULL
        THEN /\ items' = SelectSeq(items, LAMBDA x : x # activeItem(World))
             /\ corners' = corners /\ walls' = walls
             /\ mode' = DELETE /\ ev'.emits = 1 /\ pending' = 1
        ELSE /\ corners' = corners /\ walls' = walls /\ items' = items
             /\ ev'.emits = 0 /\ pending' = pending
             /\ mode' = MOVE]_vars

(* a DELETE press on a corner of the floorplan removed it with the wall    *)
(* attached to it; the other wall is still there                           *)
C4_Witness ==
    /\ ev.op = "mousedown" /\ ev.removed = "corner" /\ mode = DELETE
    /\ ev.removedId \notin DOMAIN corners
    /\ Len(walls) = 1 /\ Len(items) = 2 /\ pending = 1

(* C5: at most one change notification is armed at any time, and a burst   *)
(* of emitChanges calls with no timer expiry between them yields exactly   *)
(* one notification, after the last call: once emitChanges was called,     *)
(* either one notification is armed and none was delivered since the last  *)
(* call, or none is armed and exactly one was delivered since.             *)
C5_OneNotificationPerBurst ==
    /\ pending <= 1
    /\ burst > 0 => pending + firedInBurst = 1
    /\ burst = 0 => pending = 0 /\ firedInBurst = 0

(* two mutations in a row, then the one notification                       *)
C5_Witness ==
    burst = 2 /\ pending = 0 /\ firedInBurst = 1 /\ ev.op = "fireChanges"

(* C8: a release in DRAW mode places a corner exactly when no move event   *)
(* was delivered since the last press.  Such a click creates one corner,   *)
(* at the draw target, which becomes the last-placed corner, and one wall  *)
(* exactly when there was a last-placed corner: from it to the new corner. *)
(* When the new corner merges with nothing, the floorplan afterwards is    *)
(* the floorplan before plus that corner and that wall.                    *)
C8_DrawClick ==
    [][(Did("mouseup") /\ mode = DRAW) =>
        IF ~movedSincePress
        THEN LET c == cornerSeq + 1
             IN /\ cornerSeq' = c /\ ev'.placed = c
                /\ c \notin DOMAIN corners /\ c \in DOMAIN corners'
                /\ corners'[c] = [x |-> targetX, y |-> targetY]
                /\ lastNode' = c
                /\ wallSeq' = wallSeq + (IF lastNode # NULL THEN 1 ELSE 0)
                /\ (lastNode # NULL) <=> (ev'.wall # NULL)
                /\ ~ev'.merged =>
                     /\ DOMAIN corners' = (DOMAIN corners) \cup {c}
                     /\ \A k \in DOMAIN corners : corners'[k] = corners[k]
                     /\ walls' = IF lastNode = NULL THEN walls
                                 ELSE Append(walls, [id |-> wallSeq + 1,
                                                     start |-> lastNode, end |-> c])
        ELSE /\ corners' = corners /\ walls' = walls /\ lastNode' = lastNode
             /\ cornerSeq' = cornerSeq /\ wallSeq' = wallSeq
             /\ ev'.placed = NULL]_vars

(* the second of two clicks at different places: two new corners joined by *)
(* one new wall                                                            *)
C8_Witness ==
    /\ ev.op = "mouseup" /\ mode = DRAW /\ ~ev.merged
    /\ ev.placed = cornerSeq /\ lastNode = cornerSeq
    /\ cornerSeq = Cardinality(DOMAIN InitCorners) + 2
    /\ wallSeq = Len(InitWalls) + 1
    /\ {cornerSeq - 1, cornerSeq} \subseteq DOMAIN corners
    /\ corners[cornerSeq - 1] # corners[cornerSeq]
    /\ walls[Len(walls)] = [id |-> wallSeq, start |-> cornerSeq - 1, end |-> cornerSeq]
    /\ \A i \in 1..(Len(walls) - 1) : walls[i].end # cornerSeq /\ walls[i].start # cornerSeq


(* C10: a release in MOVE mode with no move event since the press makes    *)
(* the selected item of the model the active item, or none when no item is *)
(* active; a release after a move event leaves the selection as it was.    *)
C10_ClickSelects ==
    [][(Did("mouseup") /\ mode = MOVE) =>
        IF ~movedSincePress
        THEN selectedItem' = activeItem(World)
        ELSE selectedItem' = selectedItem]_vars

(* a click on the second item of the floorplan selected it *)
C10_Witness ==
    /\ ev.op = "mouseup" /\ mode = MOVE /\ ev.setModes = 0 /\ ~movedSincePress
    /\ activeItemIndex = 2 /\ selectedItem = items[2]

(* C11: a leave event sets the button-down state to false and the active   *)
(* corner, wall and item to none; it leaves the mode, the last-placed      *)
(* corner, the draw target, the view origin, the selected item and the     *)
(* corners, walls and items of the model unchanged and schedules no change *)
(* notification.                                                           *)
C11_LeaveFrame ==
    [][Did("mouseleave") =>
        /\ mouseDown' = FALSE
        /\ activeCorner' = NULL /\ activeWall' = NULL
        /\ activeItemIndex' = NULL /\ activeItem(World)' = NULL
        /\ UNCHANGED <<mode, lastNode, targetX, targetY, originX, originY,
                       selectedItem, corners, walls, items>>
        /\ pending' = pending /\ ev'.emits = 0]_vars

(* the pointer was moved onto an item, which became active, and then left  *)
(* the canvas: nothing is active                                           *)
C11_Witness ==
    /\ ev.op = "mouseleave" /\ steps = 2 /\ hovered.item # NULL
    /\ Actives = {} /\ started = {} /\ ~mouseDown /\ mode = MOVE

(* C12: a move event with the button down and no active corner, wall or    *)
(* item, in any mode, subtracts from the view origin the raw pointer       *)
(* position of the event minus the last recorded raw position, records the *)
(* raw position of the event, and changes no corner, wall or item; a press *)
(* records its raw position; a move event with the button up or with an    *)
(* active entity leaves the view origin unchanged.                         *)
C12_PanByRawDelta ==
    [][/\ Did("mousedown") =>
            lastRawX' = ev'.clientX /\ lastRawY' = ev'.clientY
       /\ Did("mousemove") =>
            IF mouseDown /\ Actives = {}
            THEN /\ originX' = originX - (ev'.clientX - lastRawX)
                 /\ originY' = originY - (ev'.clientY - lastRawY)
                 /\ lastRawX' = ev'.clientX /\ lastRawY' = ev'.clientY
                 /\ UNCHANGED <<corners, walls, items>>
                 /\ ev'.moved = "none"
            ELSE UNCHANGED <<originX, originY>>]_vars

(* the second of two panning moves in DRAW mode, back to where the button  *)
(* was pressed: the origin is again what it was                            *)
C12_Witness ==
    /\ ev.op = "mousemove" /\ ev.panned /\ mode = DRAW /\ mouseDown
    /\ steps = 4 /\ originX = 0 /\ originY = 0
    /\ lastRawX = ev.clientX /\ lastRawY = ev.clientY /\ mouseX # 0

(* C13: every call of setMode(m), also with m the current mode, fires      *)
(* exactly one mode-changed event, with payload m, after the update of the *)
(* state: during the event the mode is m and there is no active corner,    *)
(* wall or item, no last-placed corner and no selected item.               *)
C13_ModeEventAfterUpdate ==
    /\ Len(ev.modeEvents) = ev.setModes
    /\ ev.op \in {"setMode", "escapeKey", "reset"} => ev.setModes = 1
    /\ \A i \in DOMAIN ev.modeEvents :
          LET seen == ev.modeEvents[i]
          IN /\ seen.payload = (IF ev.op = "setMode" THEN ev.arg ELSE MOVE)
             /\ seen.mode = seen.payload /\ mode = seen.payload
             /\ seen.activeCorner = NULL /\ seen.activeWall = NULL
             /\ seen.activeItem = NULL /\ seen.lastNode = NULL
             /\ seen.selectedItem = NULL

(* Escape as the first event, in MOVE mode: one event, with payload MOVE   *)
C13_Witness ==
    /\ ev.op = "escapeKey" /\ steps = 1
    /\ Len(ev.modeEvents) = 1 /\ ev.modeEvents[1].payload = MOVE

(* C15: the items that received startActive and no endActive since are    *)
(* none when no item is active and the active item alone otherwise, and no *)
(* item receives endActive without a startActive that no endActive         *)
(* followed.                                                               *)
C15_ActiveTracking ==
    /\ started = (IF activeItem(World) = NULL THEN {} ELSE {activeItem(World)})
    /\ ~ev.strayEnd

(* C16: an entity removed by a press in DELETE mode is the entity that the *)
(* most recent run of the hit tests reported under the pointer.            *)
C16_RemovesHovered ==
    ev.op = "mousedown" =>
        /\ ev.removed = "corner" => ev.removedId = hovered.corner
        /\ ev.removed = "wall" => ev.removedId = hovered.wall
        /\ ev.removed = "item" => ev.removedId = hovered.item

(* C17, as claimed: whenever no change notification is armed and one was   *)
(* delivered, the x and y of the most recently delivered one are the       *)
(* current originX and originY.                                            *)
C17_ListenersInSync ==
    (pending = 0 /\ delivered # <<>>) =>
        delivered = <<[x |-> originX, y |-> originY]>>

(* C17, amended: the x and y of a change notification are originX and      *)
(* originY at the moment of its delivery, which does not change them; no   *)
(* other event delivers one; and the origin changes only in a panning move *)
(* (button down, nothing active) and in a reset, neither of which arms a   *)
(* notification.                                                           *)
C17_OriginAtDelivery ==
    [][/\ Did("fireChanges") =>
            /\ delivered' = <<[x |-> originX, y |-> originY]>>
            /\ UNCHANGED <<originX, originY>>
       /\ (steps' = steps + 1 /\ ev'.op # "fireChanges") =>
            /\ delivered' = delivered
            /\ \/ UNCHANGED <<originX, originY>>
               \/ /\ ev'.op = "reset" /\ ev'.emits = 0
               \/ /\ ev'.op = "mousemove" /\ mouseDown /\ Actives = {}
                  /\ ev'.emits = 0]_vars

(* a notification delivered after a reset has moved the origin *)
C17_Witness ==
    /\ ev.op = "fireChanges" /\ originX # 0 /\ originX # targetX
    /\ delivered = <<[x |-> originX, y |-> originY]>>
    /\ ev.payload.x = originX /\ ev.payload.y = originY

(* C18: in DRAW mode the active corner, the active wall and the active     *)
(* item are none; so a move event with the button down in DRAW mode pans   *)
(* the view by the raw pointer delta and moves no corner, wall or item.    *)
C18_DrawHasNoActive ==
    /\ [](mode = DRAW => Actives = {} /\ activeItemIndex = NULL)
    /\ [][(Did("mousemove") /\ mode = DRAW /\ mouseDown) =>
            /\ ev'.panned /\ ev'.moved = "none" /\ ev'.emits = 0
            /\ originX' = originX - (ev'.clientX - lastRawX)
            /\ originY' = originY - (ev'.clientY - lastRawY)
            /\ UNCHANGED <<corners, walls, items>>]_vars

(* a corner was hovered in another mode before DRAW mode was entered; the  *)
(* move with the button down pans                                          *)
C18_Witness ==
    /\ ev.op = "mousemove" /\ mode = DRAW /\ mouseDown /\ ev.panned
    /\ hovered.corner # NULL /\ activeCorner = NULL /\ originX # 0

----------------------------------------------------------------------------
(* The controller with a debounce timer that does expire: an armed timeout *)
(* that is not cancelled by a new emitChanges call runs fireChanges after  *)
(* the wait of debounce, whatever else was handled before.  The expiry is  *)
(* not counted among the events, of which such a run handles up to         *)
(* MaxLiveEvents.                                                          *)

Expire ==
    /\ pending > 0
    /\ \E w \in {fireChanges(World)} :
          Commit(w) /\ UNCHANGED <<steps, cbVars, wallsIn>>

CanHandleLive == steps < MaxLiveEvents

NextLive ==
    \/ CanHandleLive /\ Press
    \/ CanHandleLive /\ Move
    \/ CanHandleLive /\ Release
    \/ CanHandleLive /\ Leave
    \/ CanHandleLive /\ Escape
    \/ CanHandleLive /\ SetMode
    \/ CanHandleLive /\ Reset
    \/ Expire

SpecLive == Init /\ [][NextLive]_vars /\ WF_vars(Expire)

(* C14: every event that removes an entity in DELETE mode, moves an item,  *)
(* corner or wall in a drag, places a corner, or otherwise changes the     *)
(* corners, walls or items leaves a change notification armed; and an      *)
(* armed notification is eventually delivered, with the view origin and    *)
(* the floorplan export of the moment of its delivery.                     *)
C14_MutationsReported ==
    /\ [][(/\ steps' = steps + 1
           /\ \/ <<corners, walls, items>>' # <<corners, walls, items>>
              \/ ev'.removed # "none" \/ ev'.moved # "none"
              \/ ev'.placed # NULL)
          => pending' = 1]_vars
    /\ (pending > 0) ~>
         (/\ ev.op = "fireChanges" /\ pending = 0
          /\ ev.payload = [x |-> originX, y |-> originY,
                           floorplane |-> exportFloorplan(World)])

(* after a reset and the removal of an item by a DELETE press, the         *)
(* notification: the origin of the reset and the one item that is left     *)
C14_Witness ==
    /\ ev.op = "fireChanges" /\ pending = 0 /\ mode = DELETE
    /\ originX # 0 /\ ev.payload.x = originX
    /\ Len(items) < Len(InitItems) /\ ev.payload.floorplane.items = items

----------------------------------------------------------------------------
(* checkWallDuplicates on its own: a controller whose floorplan holds any  *)
(* list of up to MaxWalls walls between three corners, the i-th wall with  *)
(* id i, and one call.                                                     *)

DupCorners == [k \in 1..3 |-> [x |-> 0, y |-> ToCm(k * 1000)]]

RECURSIVE WallLists(_)
WallLists(n) ==
    IF n = 0 THEN {<<>>}
    ELSE LET shorter == WallLists(n - 1)
         IN shorter \cup
            {Append(q, [id |-> n, start |-> a, end |-> b]) :
                q \in {p \in shorter : Len(p) = n - 1},
                a \in DOMAIN DupCorners, b \in DOMAIN DupCorners}

InitDup ==
    \E ws \in WallLists(MaxWalls) :
        /\ InitController(DupCorners, ws, <<>>)
        /\ wallsIn = ws
        /\ InitCallback

Dedupe ==
    /\ steps = 0
    /\ Handled(checkWallDuplicates(Begin(World, "checkWallDuplicates")))

NextDup == Dedupe

SpecDup == InitDup /\ [][NextDup]_vars

(* two walls join the same two corners, in either orientation *)
SameEnds(a, b) == {a.start, a.end} = {b.start, b.end}

(* C6: after checkWallDuplicates no two remaining walls join the same two  *)
(* corners, and the walls that remain are, in their order, the walls of    *)
(* the list that no earlier wall of the list duplicates: the first wall of *)
(* every endpoint pair and every wall without a duplicate.                 *)
C6_FirstOfEachPairRemains ==
    ev.op = "checkWallDuplicates" =>
        /\ \A i, j \in DOMAIN walls : i # j => ~SameEnds(walls[i], walls[j])
        /\ walls = SelectSeq(wallsIn,
                     LAMBDA x : \A i \in 1..(x.id - 1) : ~SameEnds(wallsIn[i], x))

(* three walls between the same two corners, the second against the        *)
(* orientation of the first: the first alone remains                       *)
C6_Witness ==
    /\ ev.op = "checkWallDuplicates" /\ Len(wallsIn) = 3
    /\ wallsIn[1].start # wallsIn[1].end
    /\ wallsIn[2].start = wallsIn[1].end /\ wallsIn[2].end = wallsIn[1].start
    /\ wallsIn[3] = [wallsIn[1] EXCEPT !.id = 3]
    /\ walls = <<wallsIn[1]>>

----------------------------------------------------------------------------
(* Drawing on an empty floorplan, with pointer positions on both sides of  *)
(* the snap tolerance and a canvas that is scrolled by a fraction of a     *)
(* pixel between events: 13 px - 12.303 px is 1.416 cm, 13 px is           *)
(* 26.416 cm, 12 px is 24.384 cm.                                          *)

PointersDraw ==
    {[clientX |-> 13000, clientY |-> 0], [clientX |-> 13000, clientY |-> 12000],
     [clientX |-> 26000, clientY |-> 13000]}

RectsDraw == {Rect, [Rect EXCEPT !.left = 12303]}

InitDraw == InitController(<<>>, <<>>, <<>>) /\ InitIdle

MoveDraw == MoveIn(PointersDraw, RectsDraw)

NextDraw ==
    \/ Press
    \/ MoveDraw
    \/ Release
    \/ Leave
    \/ Escape
    \/ SetMode
    \/ Reset
    \/ TimerFires

SpecDraw == InitDraw /\ [][NextDraw]_vars

(* C7: after a move event in DRAW mode with a last-placed corner, on each  *)
(* axis the draw target is the corner's coordinate when the pointer is     *)
(* less than 25 cm from it on that axis, and the pointer's coordinate      *)
(* otherwise; a draw target updated without a last-placed corner or        *)
(* outside DRAW mode (a move in DRAW mode, a drag in MOVE mode, setMode)   *)
(* is the pointer position.                                                *)
C7_SnapPerAxis ==
    /\ (ev.op = "mousemove" /\ mode = DRAW /\ lastNode # NULL) =>
         /\ Abs(mouseX - corners[lastNode].x) < snapTolerance
              => targetX = corners[lastNode].x
         /\ Abs(mouseX - corners[lastNode].x) >= snapTolerance
              => targetX = mouseX
         /\ Abs(mouseY - corners[lastNode].y) < snapTolerance
              => targetY = corners[lastNode].y
         /\ Abs(mouseY - corners[lastNode].y) >= snapTolerance
              => targetY = mouseY
    /\ (/\ ev.op = "mousemove"
        /\ (mode = DRAW /\ lastNode = NULL) \/ (mode = MOVE /\ mouseDown)) =>
         targetX = mouseX /\ targetY = mouseY
    /\ ev.setModes > 0 => targetX = mouseX /\ targetY = mouseY

(* the pointer is exactly 25 cm from the last-placed corner on the x axis  *)
(* and closer than that, but not on it, on the y axis: x follows the       *)
(* pointer and y is snapped                                                *)
C7_Witness ==
    /\ ev.op = "mousemove" /\ mode = DRAW /\ lastNode # NULL
    /\ Abs(mouseX - corners[lastNode].x) = snapTolerance
    /\ targetX = mouseX
    /\ mouseY # corners[lastNode].y
    /\ Abs(mouseY - corners[lastNode].y) < snapTolerance
    /\ targetY = corners[lastNode].y

----------------------------------------------------------------------------
(* A Callback on its own: listeners are added, removed and fired.          *)

Fns == {"f", "g", "h"}
Events == {"a", "b"}

InitCb == InitController(<<>>, <<>>, <<>>) /\ InitIdle

CbDone(op, arg) ==
    /\ ev' = [NoEvent EXCEPT !.op = op, !.arg = arg]
    /\ UNCHANGED <<ctlVars, fpVars, pending, started, firedInBurst, burst,
                   movedSincePress, hovered, delivered, steps, wallsIn, firing>>

Add ==
    \E fn \in Fns :
        /\ Len(callbacks) < MaxListeners
        /\ callbacks' = add(callbacks, fn)
        /\ registered' = Append(registered, fn)
        /\ everAdded' = everAdded \cup {fn}
        /\ calls' = calls
        /\ CbDone("add", fn)

Remove ==
    \E fn \in Fns :
        /\ callbacks' = remove(callbacks, fn)
        /\ registered' = SelectSeq(registered, LAMBDA f : f # fn)
        /\ UNCHANGED <<calls, everAdded>>
        /\ CbDone("remove", fn)

Fire ==
    \E event \in Events :
        /\ calls' = fire(callbacks, event)
        /\ UNCHANGED <<callbacks, registered, everAdded>>
        /\ CbDone("fire", event)

NextCb ==
    \/ Add
    \/ Remove
    \/ Fire

SpecCb == InitCb /\ [][NextCb]_vars

(* The same Callback with listeners that call add or remove on it while    *)
(* they are called: fire is one step to begin, one step per listener       *)
(* called, in which the listener does nothing or makes one such call, and  *)
(* one step to return.                                                     *)

CbStep(op, arg, did) ==
    /\ ev' = [NoEvent EXCEPT !.op = op, !.arg = arg, !.listener = did]
    /\ UNCHANGED <<ctlVars, fpVars, pending, started, firedInBurst, burst,
                   movedSincePress, hovered, delivered, steps, wallsIn>>

FireBegin ==
    \E event \in Events :
        /\ firing = <<>>
        /\ firing' = <<forEachBegin(callbacks, event, registered)>>
        /\ calls' = <<>>
        /\ UNCHANGED <<callbacks, registered, everAdded>>
        /\ CbStep("fireBegin", event, "")

(* forEach calls the next listener, which returns without a call *)
CallPlain ==
    /\ firing # <<>> /\ toVisit(firing[1], callbacks) # <<>>
    /\ calls' = Append(calls, [fn |-> Head(toVisit(firing[1], callbacks)),
                               event |-> firing[1].event])
    /\ firing' = <<[firing[1] EXCEPT !.i = @ + 1]>>
    /\ UNCHANGED <<callbacks, registered, everAdded>>
    /\ CbStep("call", "", "")

(* forEach calls the next listener, which calls add(fn) *)
CallAdds ==
    \E fn \in Fns :
        /\ firing # <<>> /\ toVisit(firing[1], callbacks) # <<>>
        /\ Len(callbacks) < MaxListeners
        /\ calls' = Append(calls, [fn |-> Head(toVisit(firing[1], callbacks)),
                                   event |-> firing[1].event])
        /\ callbacks' = add(callbacks, fn)
        /\ firing' = <<[addDuring(firing[1], fn) EXCEPT !.i = @ + 1]>>
        /\ registered' = Append(registered, fn)
        /\ everAdded' = everAdded \cup {fn}
        /\ CbStep("call", fn, "add")

(* forEach calls the next listener, which calls remove(fn) *)
CallRemoves ==
    \E fn \in Fns :
        /\ firing # <<>> /\ toVisit(firing[1], callbacks) # <<>>
        /\ calls' = Append(calls, [fn |-> Head(toVisit(firing[1], callbacks)),
                                   event |-> firing[1].event])
        /\ callbacks' = remove(callbacks, fn)
        /\ firing' = <<[removeDuring(firing[1], fn) EXCEPT !.i = @ + 1]>>
        /\ registered' = SelectSeq(registered, LAMBDA f : f # fn)
        /\ everAdded' = everAdded
        /\ CbStep("call", fn, "remove")

(* forEach has called the last listener: fire returns *)
FireEnd ==
    /\ firing # <<>> /\ toVisit(firing[1], callbacks) = <<>>
    /\ firing' = <<>>
    /\ UNCHANGED <<callbacks, calls, registered, everAdded>>
    /\ CbStep("fireEnd", firing[1].event, "")

(* add and remove called when no fire is in progress *)
AddIdle == firing = <<>> /\ Add
RemoveIdle == firing = <<>> /\ Remove

NextReent ==
    \/ AddIdle
    \/ RemoveIdle
    \/ FireBegin
    \/ CallPlain
    \/ CallAdds
    \/ CallRemoves
    \/ FireEnd

SpecReent == InitCb /\ [][NextReent]_vars

(* q with every occurrence of x deleted, the rest in their order *)
RECURSIVE Without(_, _)
Without(q, x) ==
    IF q = <<>> THEN <<>>
    ELSE IF Head(q) = x THEN Without(Tail(q), x)
    ELSE <<Head(q)>> \o Without(Tail(q), x)

(* the calls a fire makes to the registrations regs with event *)
Delivery(regs, event) == [k \in DOMAIN regs |-> [fn |-> regs[k], event |-> event]]

(* C19: a fire calls exactly the listeners registered when it began, once  *)
(* per registration and in registration order, also when listeners call    *)
(* add or remove during it: at every moment of the fire the calls made so  *)
(* far are a prefix of that delivery, and when fire returns they are all   *)
(* of it.  The listener array is at all times the registrations in force   *)
(* (so a listener added during a fire is called by the next one and a      *)
(* listener removed during it is not).  remove(fn) deletes every           *)
(* registration of fn, keeps the others in their order, and changes        *)
(* nothing when fn is not registered.                                      *)
C19_FireDeliversSnapshot ==
    /\ [](callbacks = registered)
    /\ [](firing # <<>> =>
            /\ Len(calls) <= Len(firing[1].atBegin)
            /\ calls = SubSeq(Delivery(firing[1].atBegin, firing[1].event),
                              1, Len(calls)))
    /\ [][(firing # <<>> /\ ev'.op = "fireEnd") =>
            calls' = Delivery(firing[1].atBegin, firing[1].event)]_vars
    /\ [][(ev'.op = "remove" \/ ev'.listener = "remove") =>
            /\ callbacks' = Without(callbacks, ev'.arg)
            /\ ev'.arg \notin Range(callbacks) => callbacks' = callbacks]_vars

(* a fire has returned during which one listener added a function, which   *)
(* was not called, and one removed a registered function, which was        *)
(* called                                                                  *)
C19_Witness ==
    /\ ev.op = "fireEnd" /\ firing = <<>> /\ Len(calls) >= 2
    /\ \E k \in DOMAIN calls : calls[k].fn \notin Range(callbacks)
    /\ \E fn \in Range(callbacks) : \A k \in DOMAIN calls : calls[k].fn # fn

(* C9: when fire(event) returns it has called every listener registered at *)
(* that time with the event, once per registration and in the order of the *)
(* registrations, and no listener that was removed.                        *)
C9_FireCallsRegistered ==
    ev.op = "fire" =>
        /\ Len(calls) = Len(registered)
        /\ \A i \in DOMAIN calls :
              calls[i] = [fn |-> registered[i], event |-> ev.arg]

(* a listener added twice, with another between, and a third one removed   *)
(* before the fire: called twice, once, and not at all                     *)
C9_Witness ==
    /\ ev.op = "fire" /\ Len(calls) = 3
    /\ calls[1].fn = calls[3].fn /\ calls[2].fn # calls[1].fn
    /\ \E fn \in everAdded : \A i \in DOMAIN calls : calls[i].fn # fn

====
